---- MODULE Spec2Model ----
(***************************************************************************)
(* cortex.significant_locations (src/cortex/primary/significant_locations.py) *)
(*                                                                         *)
(* Units.  A coordinate is an integer number of ticks of 1e-4 degree.      *)
(* Every reading lies on longitude 0, so that both distance formulas of    *)
(* the source reduce to exact integer arithmetic on the latitude           *)
(* difference: euclid is 110.25 km per degree, distance (haversine, with   *)
(* R = 6378.137 km) is 111.32 km per degree.  Lengths are kept in          *)
(* millimetres.  A proportion n/d is kept as its numerator n; inside one   *)
(* list every record has the same denominator d.                           *)
(***************************************************************************)
EXTENDS Integers, Sequences, FiniteSets, TLC

VARIABLES
    gpsData,        \* the GPS source: readings of the subject, by timestamp
    attachment,     \* the attachment store: the persisted Reduction state
    pc,             \* per invocation: where it stands
    kwargs,         \* per invocation: start, end, k_max
    reduced_data,   \* per invocation: its local reduced_data
    fault,          \* per invocation: a call to the store or the source failed
    result,         \* per invocation: what it returned
    lastReduced,    \* `end` of the reducer's last run, when no call has come since
    again,          \* per invocation: the reducer last ran with this very `end`
    call,           \* arguments of a direct call of a helper
    ret             \* what the helper returned

vars == <<gpsData, attachment, pc, kwargs, reduced_data, fault, result,
          lastReduced, again, call, ret>>

(* ------------------------------ bounds -------------------------------- *)

MaxTime == 6        \* timestamps of a long GPS history are 1..MaxTime
MaxShort == 3       \* a short GPS history has at most MaxShort readings
MaxClusters == 3    \* remove_clusters is called on at most MaxClusters records
MaxRows == 3        \* _location_duration is called on at most MaxRows rows
MaxKMax == 3        \* largest k_max an invocation passes

LongSites == {0, 2000}          \* 0.2 degree apart: 22 km
ShortSites == {4, 20, 40}       \* 0.0004 rounds to 0.000; then as MergeSites
MergeSites == {0, 20, 40}       \* a chain: 222 m, 222 m, 445 m
Labels == {0 - 1, 0, 1}
MaxDistValues == {100, 300}     \* MAX_DIST in metres (300 is the default)
MinClusterSizes == {1, 50}      \* min_cluster_size in percent (1 is the default)

(* ------------------------------ helpers ------------------------------- *)

Abs(x) == IF x < 0 THEN 0 - x ELSE x

RECURSIVE SumSeq(_)
SumSeq(s) == IF s = <<>> THEN 0 ELSE Head(s) + SumSeq(Tail(s))

\* the integer square root of x >= 0, by bisection of lo..hi
RECURSIVE ISqrtIn(_, _, _)
ISqrtIn(x, lo, hi) ==
    IF lo = hi THEN lo
    ELSE LET mid == (lo + hi + 1) \div 2
         IN  IF mid * mid <= x THEN ISqrtIn(x, mid, hi) ELSE ISqrtIn(x, lo, mid - 1)

ISqrt(x) == ISqrtIn(x, 0, 46340)

Reverse(s) == [i \in 1..Len(s) |-> s[Len(s) + 1 - i]]

\* Python's None
None == <<>>

(* ------------------------- distance utilities ------------------------- *)

\* (lng - lng0) * cos(lat0).  cos is needed at lat0 = 0 only: with every
\* reading on longitude 0 the product is 0 in the k-means path, and the
\* mode path, which passes (longitude, latitude), has lat0 = longitude = 0.
CosScaled(dlng, lat0) == IF dlng = 0 \/ lat0 # 0 THEN 0 ELSE dlng

\* euclid, in millimetres: 110.25 km per degree is 11025 mm per tick
euclid(g0, g1) ==
    LET dlat == g0[1] - g1[1]
        dlng == CosScaled(g0[2] - g1[2], g1[1])
    IN  11025 * ISqrt(dlat * dlat + dlng * dlng)

\* distance (haversine), in millimetres, between points of one meridian:
\* R * |dLat| = 6378.137 km * pi / 180 per degree = 11132 mm per tick
distance(c1, c2) == 11132 * Abs(c2[1] - c1[1])

(* --------------------------- remove_clusters -------------------------- *)

latlon(cl) == <<cl.latitude, cl.longitude>>

\* lines 90-96 with the proportion of j left in place
AbsorbKeep(clusters, i, j) ==
    [clusters EXCEPT ![i].proportion = @ + clusters[j].proportion,
                     ![i].duration = @ + clusters[j].duration]

\* lines 94-96: i takes the proportion and the duration of j
Absorb(clusters, i, j) ==
    [clusters EXCEPT ![i].proportion = @ + clusters[j].proportion,
                     ![j].proportion = 0,
                     ![i].duration = @ + clusters[j].duration]

\* lines 90-96: for j in range(i + 1, n)
RECURSIVE MergeInto(_, _, _, _)
MergeInto(clusters, i, j, MAX_DIST) ==
    IF j > Len(clusters) THEN clusters
    ELSE MergeInto(IF distance(latlon(clusters[i]), latlon(clusters[j]))
                         < MAX_DIST * 1000
                   THEN Absorb(clusters, i, j) ELSE clusters,
                   i, j + 1, MAX_DIST)

\* lines 86-98: for i in range(n - 1)
RECURSIVE MergeFrom(_, _, _)
MergeFrom(clusters, i, MAX_DIST) ==
    IF i > Len(clusters) - 1 THEN clusters
    ELSE MergeFrom(IF clusters[i].proportion > 0
                   THEN MergeInto(clusters, i, i + 1, MAX_DIST) ELSE clusters,
                   i + 1, MAX_DIST)

\* lines 100-101 left out: the survivors keep the rank they came with
KeepRank(clusters) == clusters

\* lines 100-101: clusters[i]['rank'] = i
Rerank(clusters) ==
    [i \in 1..Len(clusters) |-> [clusters[i] EXCEPT !.rank = i - 1]]

Survives(cl) == cl.proportion > 0

remove_clusters(clusters, MAX_DIST) ==
    Rerank(SelectSeq(MergeFrom(clusters, 1, MAX_DIST), Survives))

(* -------------------------- _location_duration ------------------------ *)

\* line 107: np.r_[False, df['cluster'] == cluster, False], indexed from 0
ArrExt(df, cluster) ==
    [m \in 0..(Len(df) + 1) |->
        IF m = 0 \/ m = Len(df) + 1 THEN FALSE ELSE df[m].cluster = cluster]

\* line 108: np.flatnonzero(arr_ext[:-1] != arr_ext[1:]), ascending
RECURSIVE FlatNonZero(_, _)
FlatNonZero(arr, m) ==
    IF m + 1 \notin DOMAIN arr THEN <<>>
    ELSE (IF arr[m] # arr[m + 1] THEN <<m>> ELSE <<>>) \o FlatNonZero(arr, m + 1)

\* line 109: list(zip(idx[:-1:2], idx[1::2] - 1))
IdxList(idx) ==
    [r \in 1..(Len(idx) \div 2) |-> <<idx[2 * r - 1], idx[2 * r] - 1>>]

\* line 115: df['timestamp'][tup[1]] - df['timestamp'][tup[0]] (0-based rows)
Span(df, tup) == df[tup[2] + 1].timestamp - df[tup[1] + 1].timestamp

\* lines 112-117
HometimeList(df, idx_list) ==
    [r \in 1..Len(idx_list) |->
        IF idx_list[r][1] = idx_list[r][2] THEN 0 ELSE Span(df, idx_list[r])]

_location_duration(df, cluster) ==
    LET rdf == Reverse(df)
        idx == FlatNonZero(ArrExt(rdf, cluster), 0)
    IN  SumSeq(HometimeList(rdf, IdxList(idx)))

(* ------------------------------ GPS source ---------------------------- *)

Reading(t, lat) == [timestamp |-> t, latitude |-> lat, longitude |-> 0]

\* gps(start=..., end=...)['data']: the readings of [start, end), ascending
gps(data, start, end) ==
    SelectSeq(data, LAMBDA r : start <= r.timestamp /\ r.timestamp < end)

\* lines 135 and 254: df[df['timestamp'] != df['timestamp'].shift()]
Dedup(df) ==
    LET Keep(i) == i = 1 \/ df[i].timestamp # df[i - 1].timestamp
        RECURSIVE From(_)
        From(i) == IF i > Len(df) THEN <<>>
                   ELSE (IF Keep(i) THEN <<df[i]>> ELSE <<>>) \o From(i + 1)
    IN  From(1)

(* --------------------- Incremental Spatial Reducer -------------------- *)

\* sklearn's DBSCAN(eps=eps): min_samples defaults to 5
MinSamples == 5

\* line 139: 30000 rows per DBSCAN run
ChunkSize == 30000

NoAttachment == [end |-> 0 - 1, data |-> <<>>]

\* line 126: {'end':0, 'data':[]}
Default == [end |-> 0, data |-> <<>>]

Watermark(a) == IF a = NoAttachment THEN 0 ELSE a.end

Min(a, b) == IF a < b THEN a ELSE b

\* line 139: np.split(df, [30000*i for i in range(ceil(len(df) / 30000))]);
\* the first piece, df[0:0], is empty and skipped at line 142
CutDf(df) ==
    LET pieces == (Len(df) + ChunkSize - 1) \div ChunkSize
    IN  [c \in 1..pieces |->
            SubSeq(df, ChunkSize * (c - 1) + 1, Min(ChunkSize * c, Len(df)))]

SamePlace(a, b) == a.latitude = b.latitude /\ a.longitude = b.longitude

\* line 147: dbscan.fit_predict with eps below one tick: a row is a core
\* point when at least min_samples rows of the chunk share its coordinates
InCluster(d, i) ==
    Cardinality({j \in 1..Len(d) : SamePlace(d[j], d[i])}) >= MinSamples

\* lines 152-155: the rows labelled -1, one summary point each
NoisePoints(d) ==
    LET RECURSIVE From(_)
        From(i) == IF i > Len(d) THEN <<>>
                   ELSE (IF InCluster(d, i) THEN <<>>
                         ELSE <<[latitude |-> d[i].latitude,
                                 longitude |-> d[i].longitude, count |-> 1]>>)
                        \o From(i + 1)
    IN  From(1)

\* lines 149-151, 157: the clusters in label order (order of their first
\* row), each with its centroid (all its rows share it) and its size
DbClusters(d) ==
    LET First(i) == \A j \in 1..(i - 1) : ~SamePlace(d[j], d[i])
        RECURSIVE From(_)
        From(i) == IF i > Len(d) THEN <<>>
                   ELSE (IF InCluster(d, i) /\ First(i)
                         THEN <<[latitude |-> d[i].latitude,
                                 longitude |-> d[i].longitude,
                                 count |-> Cardinality({j \in 1..Len(d) :
                                               SamePlace(d[j], d[i])})]>>
                         ELSE <<>>)
                        \o From(i + 1)
    IN  From(1)

\* line 164: np.argmin, the first index of the least distance
MinDistIndex(data, c) ==
    CHOOSE i \in 1..Len(data) :
        \A j \in 1..Len(data) :
            LET di == euclid(latlon(data[i]), latlon(c))
                dj == euclid(latlon(data[j]), latlon(c))
            IN  di < dj \/ (di = dj /\ i <= j)

\* lines 158-171 for the clusters cs, one after the other: acc.new is
\* new_reduced_data, acc.db is db_points
RECURSIVE FoldClusters(_, _, _)
FoldClusters(old, acc, cs) ==
    IF cs = <<>> THEN acc
    ELSE LET c == Head(cs)
             m == MinDistIndex(old, c)
         IN  FoldClusters(old,
                IF Len(old) = 0
                THEN [acc EXCEPT !.db = Append(@, c)]
                ELSE IF euclid(latlon(old[m]), latlon(c)) < 20 * 1000000
                THEN [acc EXCEPT !.new[m].count = @ + c.count]
                ELSE [acc EXCEPT !.db = Append(@, c)],
                Tail(cs))

\* lines 145-175: one chunk d folded into reduced_data
ReduceChunk(rd, d, end) ==
    LET acc == FoldClusters(rd.data,
                   [new |-> rd.data, db |-> NoisePoints(d)], DbClusters(d))
    IN  [end |-> end, data |-> acc.new \o acc.db]

\* lines 140-175: for d in cut_df
RECURSIVE ReduceChunks(_, _, _)
ReduceChunks(rd, cut_df, end) ==
    IF cut_df = <<>> THEN rd
    ELSE ReduceChunks(ReduceChunk(rd, Head(cut_df), end), Tail(cut_df), end)

\* lines 133-175: reduced_data after the readings of [rd.end, end) are folded
Reduced(rd, data, end) ==
    ReduceChunks(rd, CutDf(Dedup(gps(data, rd.end, end))), end)

(* ----------------------- per-location statistics ---------------------- *)

RECURSIVE Range(_)
Range(s) == IF s = <<>> THEN {} ELSE {Head(s)} \cup Range(Tail(s))

\* the rows of df (with their labels) that carry label idx
RowsOf(df, labels, idx) ==
    LET RECURSIVE From(_)
        From(i) == IF i > Len(df) THEN <<>>
                   ELSE (IF labels[i] = idx THEN <<df[i]>> ELSE <<>>)
                        \o From(i + 1)
    IN  From(1)

\* np.mean of a non-empty list (rounded down); of an empty one, nan (-1)
Mean(s) == IF s = <<>> THEN 0 - 1 ELSE SumSeq(s) \div Len(s)

Labelled(df, labels) ==
    [i \in 1..Len(df) |-> [timestamp |-> df[i].timestamp, cluster |-> labels[i]]]

(* --------------------- Density+Partition extractor -------------------- *)

\* lines 181-183: every summary point repeated `count` times
RECURSIVE Expanded(_)
Expanded(data) ==
    IF data = <<>> THEN <<>>
    ELSE [i \in 1..Head(data).count |->
            [latitude |-> Head(data).latitude, longitude |-> Head(data).longitude]]
         \o Expanded(Tail(data))

\* line 187: range(1, min(k_max, len(df)))
K_clusters(k_max, n) == 1..(Min(k_max, n) - 1)

\* lines 203-204: the centres KMeans(n_clusters=k).fit may return, taken
\* among the places of the cloud
Centers(cloud, k) ==
    [1..k -> {latlon(c) : c \in Range(cloud)}]

\* line 213: kmeans.predict, the index (from 0) of the nearest centre
Predict(centers, r) ==
    (CHOOSE i \in 1..Len(centers) :
        \A j \in 1..Len(centers) :
            LET di == Abs(centers[i][1] - r.latitude)
                dj == Abs(centers[j][1] - r.latitude)
            IN  di < dj \/ (di = dj /\ i <= j)) - 1

\* lines 218-232
KMeansRecords(kw, centers, newdf) ==
    LET props == [i \in 1..Len(newdf) |-> Predict(centers, newdf[i])]
    IN  [n \in 1..Len(centers) |->
            LET idx == n - 1
                mine == RowsOf(newdf, props, idx)
            IN  [start |-> kw.start, end |-> kw.end,
                 latitude |-> centers[n][1], longitude |-> centers[n][2],
                 rank |-> idx,
                 radius |-> IF Len(mine) > 0
                            THEN <<Mean([i \in 1..Len(mine) |->
                                     euclid(centers[n], latlon(mine[i]))])>>
                            ELSE None,
                 proportion |-> Len(mine),
                 duration |-> _location_duration(Labelled(newdf, props), idx)]]

(* ------------------------ Frequency extractor ------------------------- *)

\* round(x, 3) of x >= 0, in ticks of 1e-4 degree (no x ends in 5)
Round3(x) == 10 * ((x + 5) \div 10)

Rounded(r) == <<Round3(r.latitude), Round3(r.longitude)>>

Count(df, b) == Cardinality({i \in 1..Len(df) : Rounded(df[i]) = b})

\* lines 262-263: value_counts().index.tolist(): the buckets by descending
\* count; buckets of equal count come in an order pandas does not promise
TopPoints(df) ==
    LET B == {Rounded(df[i]) : i \in 1..Len(df)}
    IN  {s \in [1..Cardinality(B) -> B] :
            /\ \A i, j \in DOMAIN s : i # j => s[i] # s[j]
            /\ \A i, j \in DOMAIN s : i < j => Count(df, s[i]) >= Count(df, s[j])}

\* lines 267-281: how many of top_points become cluster_locs
Selected(df, top_points, max_clusters, min_pct) ==
    LET min_cluster_points == (min_pct * Len(df)) \div 100
        RECURSIVE While(_)
        While(k) == IF /\ k < Len(top_points)
                       /\ Count(df, top_points[k + 1]) > min_cluster_points
                       /\ k < Len(df) - 1
                    THEN While(k + 1) ELSE k
    IN  IF max_clusters # 0 - 1
        THEN Min(IF max_clusters < 0 THEN 0 ELSE max_clusters, Len(top_points))
        ELSE While(0)

\* line 296: ... if df_clusters[df_clusters['cluster'] != idx].size else None
HasRadius(labels, idx) == \E i \in DOMAIN labels : labels[i] # idx

\* lines 256-257, 270-272, 277-279: the label of every row, -1 when its
\* bucket was not selected
ModeLabels(df, cluster_locs) ==
    [i \in 1..Len(df) |->
        IF \E k \in 1..Len(cluster_locs) : cluster_locs[k] = Rounded(df[i])
        THEN (CHOOSE k \in 1..Len(cluster_locs) : cluster_locs[k] = Rounded(df[i])) - 1
        ELSE 0 - 1]

\* lines 284-299, before remove_clusters
ModeRecords(kw, df, cluster_locs) ==
    LET labels == ModeLabels(df, cluster_locs)
        assigned == Cardinality({i \in 1..Len(df) : labels[i] # 0 - 1})
    IN  [n \in 1..Len(cluster_locs) |->
            LET idx == n - 1
                center == cluster_locs[n]
                mine == RowsOf(df, labels, idx)
            IN  [start |-> kw.start, end |-> kw.end,
                 latitude |-> center[1], longitude |-> center[2],
                 rank |-> idx,
                 radius |-> IF HasRadius(labels, idx)
                            THEN <<Mean([i \in 1..Len(mine) |->
                                     euclid(<<center[2], center[1]>>,
                                            <<mine[i].longitude, mine[i].latitude>>)])>>
                            ELSE None,
                 proportion |-> Len(mine),
                 duration |-> _location_duration(Labelled(df, labels), idx)]]

(* ------------------------------ the state ----------------------------- *)

Procs == {1, 2}

NoArgs == [start |-> 0, end |-> 0, k_max |-> 0]
NoResult == [raised |-> FALSE, value |-> <<>>]
Raised == [raised |-> TRUE, value |-> <<>>]
Returned(v) == [raised |-> FALSE, value |-> v]
NoCall == [clusters |-> <<>>, MAX_DIST |-> 0]
NoRet == [returned |-> FALSE, value |-> <<>>]
NoEnd == 0 - 1

\* GPS histories: a reading at every timestamp 1..MaxTime, a stay at one
\* place followed by a stay at a place 22 km away or at the same place; or at
\* most MaxShort readings at three places close to each other, where a
\* reading may repeat the timestamp of the one before it
LongHistories ==
    {[t \in 1..MaxTime |-> Reading(t, IF t <= i THEN a ELSE b)] :
        a \in LongSites, b \in LongSites, i \in 0..MaxTime}

RECURSIVE Stamp(_, _)
Stamp(steps, i) == IF i = 1 THEN 1 ELSE Stamp(steps, i - 1) + steps[i]

ShortHistories ==
    UNION {{[i \in 1..n |-> Reading(Stamp(steps, i), h[i])] :
               h \in [1..n -> ShortSites], steps \in [1..n -> {0, 1}]} :
           n \in 0..MaxShort}

Histories == LongHistories \cup ShortHistories

Ends == 0..(MaxTime + 1)
Starts(end) == {0, end}
KMaxValues == {MaxKMax}
ModeMaxClusters == {0 - 1, 1, MaxShort}

Idle ==
    /\ pc = [p \in Procs |-> "idle"]
    /\ kwargs = [p \in Procs |-> NoArgs]
    /\ reduced_data = [p \in Procs |-> Default]
    /\ fault = [p \in Procs |-> FALSE]
    /\ result = [p \in Procs |-> NoResult]
    /\ lastReduced = NoEnd
    /\ again = [p \in Procs |-> FALSE]

Init ==
    /\ gpsData \in Histories
    /\ attachment = NoAttachment
    /\ Idle
    /\ call = NoCall
    /\ ret = NoRet

(* ------------------- _significant_locations_kmeans -------------------- *)

\* lines 123-129: the invocation has its reduced_data
Begin(p, start, end, k_max, rd, failed) ==
    /\ pc[p] = "idle"
    /\ start <= end
    /\ pc' = [pc EXCEPT ![p] = "read"]
    /\ kwargs' = [kwargs EXCEPT ![p] = [start |-> start, end |-> end, k_max |-> k_max]]
    /\ reduced_data' = [reduced_data EXCEPT ![p] = rd]
    /\ fault' = [fault EXCEPT ![p] = failed]
    /\ result' = [result EXCEPT ![p] = NoResult]
    /\ again' = [again EXCEPT ![p] = lastReduced = end]
    /\ lastReduced' = NoEnd
    /\ UNCHANGED <<gpsData, attachment, call, ret>>

\* line 124: get_attachment answers with the persisted state
GetAttachment(p, start, end, k_max) ==
    /\ attachment # NoAttachment
    /\ Begin(p, start, end, k_max, attachment, FALSE)

\* lines 125-126: nothing is persisted yet (first use)
GetAttachmentMissing(p, start, end, k_max) ==
    /\ attachment = NoAttachment
    /\ Begin(p, start, end, k_max, Default, FALSE)

\* lines 125-126: the call to the store fails; the bare except takes it
GetAttachmentFail(p, start, end, k_max) ==
    Begin(p, start, end, k_max, Default, TRUE)

Raise(p, failed) ==
    /\ pc' = [pc EXCEPT ![p] = "done"]
    /\ result' = [result EXCEPT ![p] = Raised]
    /\ fault' = [fault EXCEPT ![p] = fault[p] \/ failed]

\* line 177 behind a check of the stored watermark
PersistedIfNewer(stored, body) == IF stored.end >= body.end THEN stored ELSE body

\* line 177: set_attachment replaces whatever is stored by body
Persisted(stored, body) == body

\* lines 131-177: the reducer, to the set_attachment that ends it
Reduce(p) ==
    /\ pc[p] = "read"
    /\ LET rd == reduced_data[p]
           kw == kwargs[p]
       IN  IF rd.end < kw.end
           THEN IF gps(gpsData, rd.end, kw.end) = <<>>
                THEN \* line 135: an empty frame has no 'timestamp' column
                     /\ Raise(p, FALSE)
                     /\ UNCHANGED <<attachment, reduced_data>>
                ELSE /\ attachment' = Persisted(attachment, Reduced(rd, gpsData, kw.end))
                     /\ reduced_data' = [reduced_data EXCEPT ![p] =
                                           Reduced(rd, gpsData, kw.end)]
                     /\ pc' = [pc EXCEPT ![p] = "extract"]
                     /\ UNCHANGED <<result, fault>>
           ELSE /\ pc' = [pc EXCEPT ![p] = "extract"]
                /\ UNCHANGED <<attachment, reduced_data, result, fault>>
    /\ lastReduced' = kwargs[p].end
    /\ UNCHANGED <<gpsData, kwargs, again, call, ret>>

\* line 133: the call to the GPS source fails
ReduceGpsFail(p) ==
    /\ pc[p] = "read"
    /\ reduced_data[p].end < kwargs[p].end
    /\ Raise(p, TRUE)
    /\ UNCHANGED <<gpsData, attachment, kwargs, reduced_data, lastReduced, again, call, ret>>

\* line 177: the call to set_attachment fails
SetAttachmentFail(p) ==
    /\ pc[p] = "read"
    /\ reduced_data[p].end < kwargs[p].end
    /\ gps(gpsData, reduced_data[p].end, kwargs[p].end) # <<>>
    /\ Raise(p, TRUE)
    /\ UNCHANGED <<gpsData, attachment, kwargs, reduced_data, lastReduced, again, call, ret>>

\* line 207 is reached: the cloud is not empty (line 186) and k is bound
\* (lines 193-199 ran at least once)
Fitted(p) ==
    LET cloud == Expanded(reduced_data[p].data)
    IN  Len(cloud) > 0 /\ K_clusters(kwargs[p].k_max, Len(cloud)) # {}

\* lines 180-232
Extract(p) ==
    /\ pc[p] = "extract"
    /\ LET cloud == Expanded(reduced_data[p].data)
           kw == kwargs[p]
           newdf == gps(gpsData, kw.start, kw.end)
       IN  IF ~Fitted(p)
           THEN Raise(p, FALSE)
           ELSE /\ \E k \in K_clusters(kw.k_max, Len(cloud)) :
                   \E centers \in Centers(cloud, k) :
                      result' = [result EXCEPT ![p] =
                          Returned(IF newdf = <<>> THEN <<>>
                                   ELSE KMeansRecords(kw, centers, newdf))]
                /\ pc' = [pc EXCEPT ![p] = "done"]
                /\ UNCHANGED fault
    /\ UNCHANGED <<gpsData, attachment, kwargs, reduced_data, lastReduced, again, call, ret>>

\* line 207: the call to the GPS source fails
ExtractGpsFail(p) ==
    /\ pc[p] = "extract"
    /\ Fitted(p)
    /\ Raise(p, TRUE)
    /\ UNCHANGED <<gpsData, attachment, kwargs, reduced_data, lastReduced, again, call, ret>>

\* the caller has the outcome; the invocation is over
Return(p) ==
    /\ pc[p] = "done"
    /\ pc' = [pc EXCEPT ![p] = "idle"]
    /\ kwargs' = [kwargs EXCEPT ![p] = NoArgs]
    /\ reduced_data' = [reduced_data EXCEPT ![p] = Default]
    /\ fault' = [fault EXCEPT ![p] = FALSE]
    /\ result' = [result EXCEPT ![p] = NoResult]
    /\ again' = [again EXCEPT ![p] = FALSE]
    /\ call' = NoCall
    /\ ret' = NoRet
    /\ UNCHANGED <<gpsData, attachment, lastReduced>>

(* --------------------- _significant_locations_mode -------------------- *)

\* lines 249-299
Mode(p, start, end, max_clusters, min_pct, MAX_DIST) ==
    /\ pc[p] = "idle"
    /\ start <= end
    /\ LET kw == [start |-> start, end |-> end, k_max |-> 0]
           _gps == gps(gpsData, start, end)
           df == Dedup(_gps)
       IN  /\ kwargs' = [kwargs EXCEPT ![p] = kw]
           /\ IF _gps = <<>>
              THEN /\ result' = [result EXCEPT ![p] = Returned(<<>>)]
                   /\ UNCHANGED <<call, ret>>
              ELSE \E top_points \in TopPoints(df) :
                      LET n == Selected(df, top_points, max_clusters, min_pct)
                          cluster_locs == SubSeq(top_points, 1, n)
                      IN  /\ call' = [clusters |-> ModeRecords(kw, df, cluster_locs),
                                      MAX_DIST |-> MAX_DIST]
                          /\ ret' = [returned |-> TRUE,
                                     value |-> remove_clusters(call'.clusters, MAX_DIST)]
                          /\ result' = [result EXCEPT ![p] = Returned(ret'.value)]
    /\ pc' = [pc EXCEPT ![p] = "done"]
    /\ lastReduced' = NoEnd
    /\ UNCHANGED <<gpsData, attachment, reduced_data, fault, again>>

\* line 249: the call to the GPS source fails
ModeGpsFail(p, start, end) ==
    /\ pc[p] = "idle"
    /\ start <= end
    /\ kwargs' = [kwargs EXCEPT ![p] = [start |-> start, end |-> end, k_max |-> 0]]
    /\ Raise(p, TRUE)
    /\ lastReduced' = NoEnd
    /\ UNCHANGED <<gpsData, attachment, reduced_data, again, call, ret>>

(* ----------------------------- behaviours ----------------------------- *)

\* significant_locations (lines 45-47), one invocation after the other
Next ==
    \/ \E end \in Ends, k_max \in KMaxValues : \E start \in Starts(end) :
          \/ GetAttachment(1, start, end, k_max)
          \/ GetAttachmentMissing(1, start, end, k_max)
          \/ GetAttachmentFail(1, start, end, k_max)
    \/ Reduce(1)
    \/ ReduceGpsFail(1)
    \/ SetAttachmentFail(1)
    \/ Extract(1)
    \/ ExtractGpsFail(1)
    \/ \E end \in Ends, max_clusters \in ModeMaxClusters,
          min_pct \in MinClusterSizes, MAX_DIST \in MaxDistValues :
          \E start \in Starts(end) :
             Mode(1, start, end, max_clusters, min_pct, MAX_DIST)
    \/ \E end \in Ends : \E start \in Starts(end) : ModeGpsFail(1, start, end)
    \/ Return(1)

Spec == Init /\ [][Next]_vars

\* two invocations of the k-means path for one subject, each to the end of
\* its reducer (line 177), in any interleaving
NextRace ==
    \E p \in Procs :
        \/ \E end \in Ends, k_max \in KMaxValues :
              \/ GetAttachment(p, 0, end, k_max)
              \/ GetAttachmentMissing(p, 0, end, k_max)
              \/ GetAttachmentFail(p, 0, end, k_max)
        \/ Reduce(p)
        \/ ReduceGpsFail(p)
        \/ SetAttachmentFail(p)

InitRace ==
    /\ gpsData \in LongHistories
    /\ attachment = NoAttachment
    /\ Idle
    /\ call = NoCall
    /\ ret = NoRet

SpecRace == InitRace /\ [][NextRace]_vars

(* ----------------------- remove_clusters, called ---------------------- *)

PropValues == {0, 1, 2}
DurValues == {0, 5}

MergeRecords ==
    [start : {0}, end : {0}, latitude : MergeSites, longitude : {0}, rank : {0},
     radius : {None}, proportion : PropValues, duration : DurValues]

\* lists in rank order
MergeLists ==
    UNION {{[i \in 1..n |-> [l[i] EXCEPT !.rank = i - 1]] : l \in [1..n -> MergeRecords]} :
           n \in 0..MaxClusters}

InitMerge ==
    /\ gpsData = <<>>
    /\ attachment = NoAttachment
    /\ Idle
    /\ call \in [clusters : MergeLists, MAX_DIST : MaxDistValues]
    /\ ret = NoRet

CallRemoveClusters ==
    /\ ~ret.returned
    /\ ret' = [returned |-> TRUE,
               value |-> remove_clusters(call.clusters, call.MAX_DIST)]
    /\ UNCHANGED <<gpsData, attachment, pc, kwargs, reduced_data, fault, result,
                   lastReduced, again, call>>

SpecMerge == InitMerge /\ [][CallRemoveClusters]_vars

(* ---------------------- _location_duration, called -------------------- *)

\* frames of at most MaxRows rows, timestamps ascending
DurFrames ==
    UNION {{df \in [1..n -> [timestamp : 0..MaxRows, cluster : Labels]] :
               \A i \in 1..(n - 1) : df[i].timestamp <= df[i + 1].timestamp} :
           n \in 0..MaxRows}

InitDur ==
    /\ gpsData = <<>>
    /\ attachment = NoAttachment
    /\ Idle
    /\ call \in [df : DurFrames, cluster : {0, 1}]
    /\ ret = NoRet

CallLocationDuration ==
    /\ ~ret.returned
    /\ ret' = [returned |-> TRUE, value |-> _location_duration(call.df, call.cluster)]
    /\ UNCHANGED <<gpsData, attachment, pc, kwargs, reduced_data, fault, result,
                   lastReduced, again, call>>

SpecDur == InitDur /\ [][CallLocationDuration]_vars

(* ------------------------------- claims ------------------------------- *)

SumProportion(clusters) ==
    SumSeq([i \in 1..Len(clusters) |-> clusters[i].proportion])

SumDuration(clusters) ==
    SumSeq([i \in 1..Len(clusters) |-> clusters[i].duration])

TotalCount(data) == SumSeq([i \in 1..Len(data) |-> data[i].count])

\* the persisted state after an invocation that finds rd persisted (Default
\* when nothing is), runs alone and meets no failure
RunAlone(rd, end) ==
    IF rd.end < end /\ gps(gpsData, rd.end, end) # <<>>
    THEN Reduced(rd, gpsData, end) ELSE rd

\* C1: over invocations that do not overlap, no step lowers the persisted
\* watermark, and a reducer that fetched new readings and ran through leaves
\* the persisted watermark at its `end`.
WatermarkMonotone ==
    [][/\ Watermark(attachment') >= Watermark(attachment)
       /\ (pc[1] = "read" /\ pc'[1] = "extract"
              /\ reduced_data[1].end < kwargs[1].end)
          => Watermark(attachment') = kwargs[1].end]_vars

\* C2: on a frame with ascending timestamps _location_duration returns no
\* negative value, and 0 when no row carries the target label.
DurationNonNegative ==
    ret.returned =>
        /\ ret.value >= 0
        /\ (\A i \in 1..Len(call.df) : call.df[i].cluster # call.cluster)
           => ret.value = 0

\* C3: remove_clusters returns records whose proportions add up to the sum
\* of the proportions it was given.
MergeConservesProportion ==
    ret.returned => SumProportion(ret.value) = SumProportion(call.clusters)

\* C3, its case: a record with a positive proportion was absorbed and dropped
ProportionAbsorbed ==
    /\ ret.returned
    /\ Len(ret.value) >= 1
    /\ Len(ret.value) < Len(call.clusters)
    /\ \A i \in 1..Len(call.clusters) : call.clusters[i].proportion > 0

\* C4: an invocation whose window [start, end) holds no reading returns the
\* empty list and raises nothing, provided no call to the store or the
\* source failed.
EmptyWindowReturnsEmpty ==
    (pc[1] = "done" /\ ~fault[1]
        /\ gps(gpsData, kwargs[1].start, kwargs[1].end) = <<>>)
    => result[1] = Returned(<<>>)

\* C5: once a call to the store or the source has failed, the invocation is
\* over and has raised: it goes on to no further step, returns no list and
\* writes nothing.
FailureIsSurfaced ==
    \A p \in Procs : fault[p] => pc[p] = "done" /\ result[p] = Raised

\* C6: a reducer that read the persisted state b before another one, with a
\* later `end`, wrote what it made of b, loses that update when it writes:
\* the watermark falls back to its own `end`, the readings between the two
\* ends are missing from the counts, and the persisted state is that of
\* neither sequential order.
StaleRead(p, q) ==
    /\ p # q
    /\ pc[p] = "read" /\ pc[q] = "extract"
    /\ ~fault[p] /\ ~fault[q]
    /\ kwargs[p].end < kwargs[q].end
    /\ reduced_data[p].end < kwargs[p].end
    /\ gps(gpsData, reduced_data[p].end, kwargs[p].end) # <<>>
    /\ gps(gpsData, kwargs[p].end, kwargs[q].end) # <<>>
    /\ attachment = Reduced(reduced_data[p], gpsData, kwargs[q].end)

RaceLosesUpdate ==
    [][\A p, q \in Procs :
          (StaleRead(p, q) /\ pc'[p] = "extract") =>
              LET b == reduced_data[p]
                  pq == RunAlone(RunAlone(b, kwargs[p].end), kwargs[q].end)
                  qp == RunAlone(RunAlone(b, kwargs[q].end), kwargs[p].end)
              IN  /\ attachment'.end = kwargs[p].end
                  /\ attachment'.end < attachment.end
                  /\ attachment' # pq /\ attachment' # qp
                  /\ TotalCount(attachment'.data) < TotalCount(pq.data)
                  /\ TotalCount(attachment'.data) < TotalCount(qp.data)]_vars

\* C6, its case: both reducers ran through, the one with the earlier `end`
\* wrote last, and the persisted watermark is below the one the other wrote
UpdateLost ==
    \E p, q \in Procs :
        /\ pc[p] = "extract" /\ pc[q] = "extract"
        /\ ~fault[p] /\ ~fault[q]
        /\ attachment = reduced_data[p]
        /\ reduced_data[q].end = kwargs[q].end
        /\ attachment.end < reduced_data[q].end
        /\ TotalCount(attachment.data) < TotalCount(reduced_data[q].data)

\* C7: a reducer that runs with the `end` the reducer last ran with leaves
\* the persisted state as it is.
ReductionIdempotent ==
    [][(again[1] /\ pc[1] = "read") => attachment' = attachment]_vars

\* C8: the ranks of a returned list are 0, 1, ..., n-1 in list order.
RanksContiguous ==
    \A p \in Procs :
        (pc[p] = "done" /\ ~result[p].raised) =>
            \A i \in 1..Len(result[p].value) : result[p].value[i].rank = i - 1

\* C8, its case: the mode extractor returned two or more records after the
\* merge dropped one that was not the last
RanksAfterDrop ==
    /\ pc[1] = "done" /\ ret.returned
    /\ result[1].value = ret.value
    /\ Len(ret.value) >= 2
    /\ Len(ret.value) < Len(call.clusters)
    /\ \E i \in 1..Len(ret.value) : ret.value[i].latitude # call.clusters[i].latitude

\* C9: in the output of the mode extractor a record has no radius exactly
\* when no reading carries its label (the record had proportion 0 when it
\* was made).
RadiusAbsentIffUnlabelled ==
    (pc[1] = "done" /\ ret.returned) =>
        \A i \in 1..Len(ret.value) :
            \A n \in 1..Len(call.clusters) :
                latlon(call.clusters[n]) = latlon(ret.value[i]) =>
                    (ret.value[i].radius = None <=> call.clusters[n].proportion = 0)

\* C10: when every record has a positive proportion, remove_clusters returns
\* records whose durations add up to the sum of the durations it was given.
MergeConservesDuration ==
    (ret.returned /\ \A i \in 1..Len(call.clusters) : call.clusters[i].proportion > 0)
    => SumDuration(ret.value) = SumDuration(call.clusters)

====
